---- MODULE Spec2Model ----
(***************************************************************************)
(* Model of fibsterm (src/src/main.rs): a terminal client that connects to *)
(* a FIBS server, scans the inbound byte stream for the login and password *)
(* prompts, renders the banner and relays key strokes.                     *)
(*                                                                         *)
(* Four threads are modelled: the coordinator (main), the network reader   *)
(* (spawn_fibs_thread), the display renderer (spawn_tui_thread) and the    *)
(* input relay (spawn_input_thread).  The environment is the server (what  *)
(* it sends, whether it closes or resets the connection), the keyboard and *)
(* the terminal.  Bytes and characters are integers (code points); strings *)
(* are sequences of them.                                                  *)
(***************************************************************************)
EXTENDS Integers, Sequences, FiniteSets, TLC

VARIABLES
    inbound,            \* bytes the server sent that the reader has not read yet
    sock,               \* "open" | "eof" (peer closed) | "reset" | "shutdown"
    outbound,           \* bytes the input relay wrote to the socket
    nevents,            \* environment events (chunks, keys, failures) so far
    fibs_pc, rbuf, fibs_res,   \* reader: position, bytes of buf[0..n) still to send, result
    zero_reads,         \* history: reads that returned 0 bytes (counted up to MaxSpin)
    tcp_rx,             \* the byte channel sync_channel::<u8>(4096)
    main_pc, main_res,  \* coordinator position and main's result
    fibs_state, s, buf, \* state.fibs_state, scanner state, banner buffer
    updates_rx,         \* the display-update channel
    tui_pc, tui_res,    \* renderer position and result
    fibs_buffer, visible_window, input_cursor_pos, drawn,
    term,               \* "ok" | "broken": whether writes to stdout succeed
    raw_mode,           \* whether the terminal is in raw mode
    diag,               \* diagnostics main wrote at the joins
    input_pc, input_res, ln,   \* input relay position, result, line accumulator
    readLog,            \* history: every byte tcp.read returned, in order
    procLog,            \* history: every byte try_recv returned, in order
    coordLog,           \* history: every update the coordinator sent successfully, with
                        \* the number of bytes received when it was sent
    phaseLog,           \* history: every value assigned to state.fibs_state, likewise
    echoLog,            \* history: every character the input relay echoed
    handled,            \* history: every update the renderer received, in order
    keyLog,             \* history: every key event the input relay read, in order
    environ,            \* the process environment: a sequence of <<name, value>>
    fibs_hostname, fibs_port   \* the server main connects to

vars == <<inbound, sock, outbound, nevents, zero_reads, fibs_pc, rbuf, fibs_res,
          tcp_rx, main_pc, main_res, fibs_state, s, buf, updates_rx, tui_pc, tui_res,
          fibs_buffer, visible_window, input_cursor_pos, drawn, term, raw_mode, diag,
          input_pc, input_res, ln, readLog, procLog, coordLog, phaseLog, echoLog,
          handled, keyLog, environ, fibs_hostname, fibs_port>>

envVars   == <<inbound, sock, nevents, term>>
fibsVars  == <<fibs_pc, rbuf, fibs_res, readLog, zero_reads>>
mainVars  == <<main_pc, main_res, fibs_state, s, buf, procLog, coordLog, phaseLog,
               raw_mode, diag>>
tuiVars   == <<tui_pc, tui_res, fibs_buffer, visible_window, input_cursor_pos, drawn,
               handled>>
inputVars == <<input_pc, input_res, ln, outbound, echoLog, keyLog>>
cfgVars   == <<environ, fibs_hostname, fibs_port>>

----------------------------------------------------------------------------
(* Bounds of the exploration *)

MaxEvents == 3      \* environment events in one run: chunks the server sends,
                    \* key events, and connection / terminal / keyboard failures
ChanCap   == 1      \* modelled capacity of the byte channel
MaxSpin   == 2      \* 0-byte reads counted before the counter saturates

----------------------------------------------------------------------------
(* Bytes *)

CR == 13
LF == 10
SP == 32
COLON == 58
BAD == 255          \* a byte that is never valid in UTF-8

Str_login    == <<108, 111, 103, 105, 110, 58, 32>>                 \* "login: "
Str_password == <<112, 97, 115, 115, 119, 111, 114, 100, 58, 32>>   \* "password: "
Str_welcome  == <<87, 101, 108, 99, 111, 109, 101, 32, 116, 111, 32, 70, 111, 111, 46>>
                                                                    \* "Welcome to Foo."
CRLF == <<CR, LF>>

\* "\r\nWelcome to Foo.\r\n\r\nlogin: "
ExampleStream == CRLF \o Str_welcome \o CRLF \o CRLF \o Str_login

\* The login prompt at the start of a line, as the scanner wants it
LoginLine == <<LF>> \o Str_login

\* A server that asks for the password at once
ExampleSession == ExampleStream \o Str_password

\* A banner of BannerLines lines, all empty but the last, which is the prompt:
\* more lines than the display window takes
BannerLines == 24
RECURSIVE Repeat(_, _)
Repeat(str, n) == IF n = 0 THEN <<>> ELSE str \o Repeat(str, n - 1)
LongBanner == CRLF \o Repeat(CRLF, BannerLines - 1) \o Str_login

\* What the server may send in one write.
Chunks == { CRLF, <<CR>>, <<LF>>, LoginLine, Str_password, <<BAD>>,
            ExampleStream, ExampleSession, LongBanner }

\* Key events: Char('k'), Char('\n'), a non-character key (0 stands for F1) and a
\* character outside ASCII.
Key_k  == 107
Key_nl == 10
Key_F1 == 0
Key_e  == 233       \* Char('\u{e9}'): two bytes in UTF-8
Keys == { Key_k, Key_e, Key_nl, Key_F1 }

----------------------------------------------------------------------------
(* The scanner table, main.rs:315-340: row s is <<default, byte, target>>. *)

delta ==
    <<  <<0, CR, 1>>,        \* delta.insert(0, ...) is row index 1 here
        <<0, LF, 2>>,
        <<2, LF, 3>>,
        <<2, 108, 4>>,
        <<2, 111, 5>>,
        <<2, 103, 6>>,
        <<2, 105, 7>>,
        <<2, 110, 8>>,
        <<2, COLON, 9>>,
        <<2, SP, 10>>,
        <<2, 112, 11>>,
        <<2, 97, 12>>,
        <<2, 115, 13>>,
        <<2, 115, 14>>,
        <<2, 119, 15>>,
        <<2, 111, 16>>,
        <<2, 114, 17>>,
        <<2, 100, 18>>,
        <<2, COLON, 19>>,
        <<2, SP, 20>> >>

\* Mutant: a byte that breaks a partial match restarts from the overlap state (the
\* LF that breaks LF "l.." is itself the start of a new match).
Step_Overlap(st, b) ==
    IF st + 1 \in DOMAIN delta
    THEN IF delta[st + 1][2] = b THEN delta[st + 1][3]
         ELSE IF st >= 2 /\ b = LF THEN 3 ELSE delta[st + 1][1]
    ELSE 0

\* delta.get(&s).and_then(|(default, d)| d.get(&b).or_else(|| Some(default)))
\*      .map(|byte| *byte).unwrap_or(0)
Step(st, b) ==
    IF st + 1 \in DOMAIN delta
    THEN IF delta[st + 1][2] = b THEN delta[st + 1][3] ELSE delta[st + 1][1]
    ELSE 0

\* String::from_utf8_lossy on a byte string whose non-ASCII bytes are all
\* bytes that cannot occur in UTF-8: each becomes U+FFFD.
ReplacementChar == 65533
from_utf8_lossy(bytes) ==
    [i \in DOMAIN bytes |-> IF bytes[i] < 128 THEN bytes[i] ELSE ReplacementChar]


\* The UTF-8 form of a string, as String::as_bytes and String::len see it
\* (code points below U+0800).
utf8(c) == IF c < 128 THEN <<c>> ELSE <<192 + (c \div 64), 128 + (c % 64)>>
RECURSIVE as_bytes(_)
as_bytes(str) == IF str = <<>> THEN <<>> ELSE utf8(Head(str)) \o as_bytes(Tail(str))

\* motd.split("\r\n").fold(Vec::new(), push): the pieces between the CR LF pairs.
\* The places of motd at which a CR LF pair begins (two pairs never overlap)
CRLFAt(motd) == { i \in 1..(Len(motd) - 1) : motd[i] = CR /\ motd[i + 1] = LF }

split(motd) ==
    LET P == CRLFAt(motd)
        n == Cardinality(P)
        pos(k) == IF k = 0 THEN -1
                  ELSE IF k = n + 1 THEN Len(motd) + 1
                  ELSE CHOOSE i \in P : Cardinality({ j \in P : j < i }) = k - 1
    IN  [k \in 1..(n + 1) |-> SubSeq(motd, pos(k - 1) + 2, pos(k) - 1)]

\* .iter().skip(w[1]).take(w[2]) over the display buffer
Window(lines, w) ==
    SubSeq(lines, w[1] + 1, IF w[1] + w[2] < Len(lines) THEN w[1] + w[2] ELSE Len(lines))

Min(a, b) == IF a < b THEN a ELSE b

ReadBuf == 4096         \* let mut buf = [0; 4096] in the reader

\* Updates
MOTD(text)        == [tag |-> "MOTD", text |-> text]
AppendChars(text) == [tag |-> "AppendChars", text |-> text]
AppendLine(text)  == [tag |-> "AppendLine", text |-> text]
Input(text)       == [tag |-> "Input", text |-> text]

----------------------------------------------------------------------------
(* Configuration, main.rs:294-301 *)

Str_FIBS_HOSTNAME == <<70, 73, 66, 83, 95, 72, 79, 83, 84, 78, 65, 77, 69>>
Str_FIBS_PORT     == <<70, 73, 66, 83, 95, 80, 79, 82, 84>>
Str_HOME          == <<72, 79, 77, 69>>
Str_example_org   == <<101, 120, 97, 109, 112, 108, 101, 46, 111, 114, 103>>
Str_8080          == <<56, 48, 56, 48>>
Str_70000         == <<55, 48, 48, 48, 48>>       \* does not fit 16 bits

DEFAULT_FIBS_SERVER == <<102, 105, 98, 115, 46, 99, 111, 109>>      \* "fibs.com"
DEFAULT_FIBS_PORT   == 4321

\* Environments: each of three variables is unset or has one of these values.
EnvNames  == << Str_HOME, Str_FIBS_HOSTNAME, Str_FIBS_PORT >>
EnvValues == { Str_example_org, Str_8080, Str_70000, Str_FIBS_HOSTNAME, Str_FIBS_PORT }
Unset == <<>>

RECURSIVE EnvOf(_, _)
EnvOf(f, i) ==
    IF i > Len(EnvNames) THEN <<>>
    ELSE (IF f[i] = Unset THEN <<>> ELSE << <<EnvNames[i], f[i]>> >>) \o EnvOf(f, i + 1)
Environs == { EnvOf(f, 1) : f \in [DOMAIN EnvNames -> EnvValues \cup {Unset}] }

\* str.parse::<u16>(): an optional '+', then decimal digits that fit 16 bits;
\* None otherwise.
None == -1
RECURSIVE ParseDigits(_, _)
ParseDigits(str, acc) ==
    IF str = <<>> THEN acc
    ELSE IF Head(str) \notin 48..57 THEN None
    ELSE LET v == acc * 10 + (Head(str) - 48) IN
         IF v > 65535 THEN None ELSE ParseDigits(Tail(str), v)
ParseU16(str) ==
    LET d == IF str # <<>> /\ Head(str) = 43 THEN Tail(str) ELSE str IN
    IF d = <<>> THEN None ELSE ParseDigits(d, 0)

NoVar == <<>>

\* env::vars().find(|(_envar, val)| val == key): the first variable whose VALUE
\* is key.
FindVar(env, key) ==
    LET I == { i \in DOMAIN env : env[i][2] = key } IN
    IF I = {} THEN NoVar ELSE env[CHOOSE i \in I : \A j \in I : i <= j]

\* .map(|(_envar, val)| val).unwrap_or(String::from(DEFAULT_FIBS_SERVER))
Hostname(env) ==
    LET v == FindVar(env, Str_FIBS_HOSTNAME) IN
    IF v = NoVar THEN DEFAULT_FIBS_SERVER ELSE v[2]

\* .and_then(|(_envar, val)| val.parse().ok()).unwrap_or(DEFAULT_FIBS_PORT)
Port(env) ==
    LET v == FindVar(env, Str_FIBS_PORT) IN
    IF v = NoVar \/ ParseU16(v[2]) = None THEN DEFAULT_FIBS_PORT ELSE ParseU16(v[2])

----------------------------------------------------------------------------
(* Initial state: everything main constructs before the session loop. *)

\* The threads, channels and locals as main leaves them before the session loop
Spawned ==
    /\ inbound = <<>> /\ sock = "open" /\ outbound = <<>>
    /\ nevents = 0 /\ zero_reads = 0
    /\ fibs_pc = "read" /\ rbuf = <<>> /\ fibs_res = "none"
    /\ tcp_rx = <<>>
    /\ main_res = "none"
    /\ fibs_state = "MOTD" /\ s = 0 /\ buf = <<>>
    /\ updates_rx = <<>>
    /\ tui_pc = "recv" /\ tui_res = "none"
    /\ fibs_buffer = <<>> /\ visible_window = <<0, 22>> /\ input_cursor_pos = <<5, 28>>
    /\ drawn = <<>>
    /\ term = "ok" /\ raw_mode = TRUE /\ diag = <<>>
    /\ input_pc = "keys" /\ input_res = "none" /\ ln = <<>>
    /\ readLog = <<>> /\ procLog = <<>> /\ coordLog = <<>> /\ echoLog = <<>>
    /\ handled = <<>> /\ keyLog = <<>>
    /\ phaseLog = << [phase |-> "MOTD", at |-> 0] >>

Init ==
    /\ Spawned
    /\ main_pc = "loop"
    /\ environ = <<>>
    /\ fibs_hostname = Hostname(environ) /\ fibs_port = Port(environ)

\* The process runs until main returns.
Alive == main_pc # "returned"

\* Live senders of the byte channel: main's tcp_tx (never dropped before main
\* returns) and the clone moved into the reader thread.
TcpTxSenders == 1 + (IF fibs_pc = "done" THEN 0 ELSE 1)

\* Live senders of the display-update channel: main's updates_tx and the clone
\* moved into the input thread.
UpdatesTxSenders == 1 + (IF input_pc = "done" THEN 0 ELSE 1)

\* The receiving half updates_rx lives in the renderer's closure.
UpdatesRxAlive == tui_pc # "done"

----------------------------------------------------------------------------
(* Environment *)

\* Pacing of the environment: the server sends its next chunk, the user
\* presses the next key and a failure strikes once the client has consumed the
\* bytes received before (Paced) and the renderer, if it still runs, has
\* handled the updates sent before (Quiet).  The four threads interleave
\* freely while they work on one event.
Paced == inbound = <<>> /\ rbuf = <<>> /\ tcp_rx = <<>>
Quiet == Paced /\ (updates_rx = <<>> \/ tui_pc = "done")

ServerSend ==
    /\ Alive /\ sock = "open" /\ nevents < MaxEvents
    /\ Quiet
    /\ \E c \in Chunks : inbound' = inbound \o c
    /\ nevents' = nevents + 1
    /\ UNCHANGED <<sock, term, outbound, tcp_rx, updates_rx>>
    /\ UNCHANGED <<fibsVars, mainVars, tuiVars, input_pc, input_res, ln, echoLog, keyLog>>
    /\ UNCHANGED cfgVars

\* The peer closes its side: reads return 0 once the queued bytes are read.
ServerClose ==
    /\ Alive /\ sock = "open" /\ nevents < MaxEvents
    /\ Quiet
    /\ sock' = "eof" /\ nevents' = nevents + 1
    /\ UNCHANGED <<inbound, term, outbound, tcp_rx, updates_rx>>
    /\ UNCHANGED <<fibsVars, mainVars, tuiVars, input_pc, input_res, ln, echoLog, keyLog>>
    /\ UNCHANGED cfgVars

\* The connection fails (reset): queued bytes are lost and the next read fails.
ServerReset ==
    /\ Alive /\ sock \in {"open", "eof", "shutdown"} /\ nevents < MaxEvents
    /\ Quiet
    /\ sock' = "reset" /\ inbound' = <<>> /\ nevents' = nevents + 1
    /\ UNCHANGED <<term, outbound, tcp_rx, updates_rx>>
    /\ UNCHANGED <<fibsVars, mainVars, tuiVars, input_pc, input_res, ln, echoLog, keyLog>>
    /\ UNCHANGED cfgVars

\* Writes to the terminal start to fail.
TermFail ==
    /\ Alive /\ term = "ok" /\ nevents < MaxEvents
    /\ Quiet
    /\ term' = "broken" /\ nevents' = nevents + 1
    /\ UNCHANGED <<inbound, sock, outbound, tcp_rx, updates_rx>>
    /\ UNCHANGED <<fibsVars, mainVars, tuiVars, input_pc, input_res, ln, echoLog, keyLog>>
    /\ UNCHANGED cfgVars

----------------------------------------------------------------------------
(* Network reader, spawn_fibs_thread *)

\* let n = tcp.read(&mut buf)?;
FibsRead ==
    /\ Alive /\ fibs_pc = "read"
    /\ inbound # <<>> \/ sock # "open"          \* otherwise the read blocks
    /\ IF inbound # <<>>
       THEN LET n == Min(Len(inbound), ReadBuf) IN
            /\ rbuf' = SubSeq(inbound, 1, n)
            /\ inbound' = SubSeq(inbound, n + 1, Len(inbound))
            /\ readLog' = readLog \o SubSeq(inbound, 1, n)
            /\ fibs_pc' = "send"
            /\ UNCHANGED <<fibs_res, zero_reads>>
       ELSE IF sock = "reset"
       THEN /\ fibs_pc' = "done" /\ fibs_res' = "IOError"
            /\ UNCHANGED <<rbuf, inbound, readLog, zero_reads>>
       ELSE \* end of stream: n = 0, the for loop is empty, the loop reads again
            /\ zero_reads' = Min(zero_reads + 1, MaxSpin)
            /\ UNCHANGED <<fibs_pc, fibs_res, rbuf, inbound, readLog>>
    /\ UNCHANGED <<sock, nevents, term, outbound, tcp_rx, updates_rx>>
    /\ UNCHANGED <<mainVars, tuiVars, input_pc, input_res, ln, echoLog, keyLog>>
    /\ UNCHANGED cfgVars

\* Mutant: the loop indexes the buffer from its end.
SendByte_Reversed(rb) == rb[Len(rb)]

\* buf[i], the byte the for loop sends next, and the bytes left for later
\* iterations
SendByte(rb) == Head(rb)
SendRest(rb) == Tail(rb)

\* tx.send(buf[i])?;  one iteration of the for loop
FibsSend ==
    /\ Alive /\ fibs_pc = "send"
    /\ Len(tcp_rx) < ChanCap                    \* otherwise the send blocks
    /\ tcp_rx' = Append(tcp_rx, SendByte(rbuf))
    /\ rbuf' = SendRest(rbuf)
    /\ fibs_pc' = IF SendRest(rbuf) = <<>> THEN "read" ELSE "send"
    /\ UNCHANGED <<fibs_res, readLog, zero_reads, envVars, outbound, updates_rx>>
    /\ UNCHANGED <<mainVars, tuiVars, input_pc, input_res, ln, echoLog, keyLog>>
    /\ UNCHANGED cfgVars

----------------------------------------------------------------------------
(* Coordinator, main *)

\* Mutant: every byte is kept, the leading ones too.
Push_Always(bf, st, b) == Append(bf, b)

\* Mutant: the skip test off by one (s > 0), which keeps the LF of the skip.
Push_OffByOne(bf, st, b) == IF st > 0 THEN Append(bf, b) ELSE bf

\* "chomp leading whitespace": if s > 1 { buf.push(b); }
Push(bf, st, b) == IF st > 1 THEN Append(bf, b) ELSE bf

\* Mutant: the buffer is left as it is.
Cleared_Kept(bf) == bf

\* buf.clear()
Cleared(bf) == <<>>

\* Update::MOTD(String::from_utf8_lossy(buf.as_slice()).into_owned())
BannerUpdate(bf) == MOTD(from_utf8_lossy(bf))

\* Update::AppendLine(String::from("password: "))
PasswordUpdate == AppendLine(Str_password)

\* Mutants: the hit tests one state early (at the ':' of the marker).
LoginHit_Early(st)    == st = 9
PasswordHit_Early(st) == st = 19

\* The state in which the MOTD arm reports the login prompt, and the one in
\* which the WaitLogin arm reports the password prompt.
LoginHit(st)    == st = 10
PasswordHit(st) == st = 20

\* Mutant: the password prompt sends the loop back to collecting the banner.
PhaseOnPassword_Back == "MOTD"

\* state.fibs_state = FibsState::WaitLogin;  state.fibs_state = FibsState::WaitPassword;
PhaseOnLogin    == "WaitLogin"
PhaseOnPassword == "WaitPassword"

\* main returns Err(e) through a `?`
MainFails(e) == main_pc' = "returned" /\ main_res' = e

\* History entries, stamped with the number of bytes received so far (the byte
\* being handled included).
Sent(u)   == [u |-> u, at |-> Len(procLog) + 1]
Logged(p) == [phase |-> p, at |-> Len(procLog) + 1]

\* One iteration of the session loop: match tcp_rx.try_recv() { ... }
MainLoop ==
    /\ Alive /\ main_pc = "loop"
    /\ IF tcp_rx # <<>>
       THEN \* Ok(b)
            LET b == Head(tcp_rx) IN
            /\ tcp_rx' = Tail(tcp_rx)
            /\ procLog' = Append(procLog, b)
            /\ IF fibs_state = "MOTD"
               THEN LET buf1 == Push(buf, s, b)
                        s1   == Step(s, b) IN
                    /\ s' = s1
                    /\ IF LoginHit(s1)
                       THEN /\ fibs_state' = PhaseOnLogin
                            /\ phaseLog' = Append(phaseLog, Logged(PhaseOnLogin))
                            /\ IF UpdatesRxAlive
                               THEN /\ updates_rx' = Append(updates_rx, BannerUpdate(buf1))
                                    /\ coordLog' = Append(coordLog, Sent(BannerUpdate(buf1)))
                                    /\ buf' = Cleared(buf1)
                                    /\ UNCHANGED <<main_pc, main_res>>
                               ELSE \* updates_tx.send(update)? fails
                                    /\ MainFails("SyncError")
                                    /\ buf' = buf1
                                    /\ UNCHANGED <<updates_rx, coordLog>>
                       ELSE /\ buf' = buf1
                            /\ UNCHANGED <<fibs_state, phaseLog, updates_rx, coordLog,
                                           main_pc, main_res>>
               ELSE IF fibs_state = "WaitLogin"
               THEN LET s1 == Step(s, b) IN
                    /\ s' = s1
                    /\ IF PasswordHit(s1)
                       THEN /\ fibs_state' = PhaseOnPassword
                            /\ phaseLog' = Append(phaseLog, Logged(PhaseOnPassword))
                            /\ IF UpdatesRxAlive
                               THEN /\ updates_rx' = Append(updates_rx, PasswordUpdate)
                                    /\ coordLog' = Append(coordLog, Sent(PasswordUpdate))
                                    /\ buf' = Cleared(buf)
                                    /\ UNCHANGED <<main_pc, main_res>>
                               ELSE /\ MainFails("SyncError")
                                    /\ UNCHANGED <<buf, updates_rx, coordLog>>
                       ELSE UNCHANGED <<fibs_state, phaseLog, buf, updates_rx, coordLog,
                                        main_pc, main_res>>
               ELSE \* FibsState::WaitPassword => break
                    /\ main_pc' = "shutdown"
                    /\ UNCHANGED <<main_res, fibs_state, phaseLog, s, buf, updates_rx,
                                   coordLog>>
       ELSE IF TcpTxSenders = 0
       THEN \* Err(Disconnected) => break
            /\ main_pc' = "shutdown"
            /\ UNCHANGED <<main_res, tcp_rx, procLog, fibs_state, phaseLog, s, buf,
                           updates_rx, coordLog>>
       ELSE \* Err(Empty) => continue
            UNCHANGED <<main_pc, main_res, tcp_rx, procLog, fibs_state, phaseLog, s, buf,
                        updates_rx, coordLog>>
    /\ UNCHANGED <<envVars, outbound, raw_mode, diag>>
    /\ UNCHANGED <<fibsVars, tuiVars, input_pc, input_res, ln, echoLog, keyLog>>
    /\ UNCHANGED cfgVars

\* Mutant: the joins start right after the socket shutdown.
AfterShutdown_Joins == "join_fibs"

\* The statement that follows tcp.shutdown, and the one that follows
\* stdout.suspend_raw_mode
AfterShutdown == "suspend"
AfterSuspend  == "join_fibs"

\* tcp.shutdown(net::Shutdown::Both)?;  fails (ENOTCONN) on a reset connection
MainShutdown ==
    /\ Alive /\ main_pc = "shutdown"
    /\ IF sock = "reset"
       THEN MainFails("IOError") /\ UNCHANGED sock
       ELSE sock' = "shutdown" /\ main_pc' = AfterShutdown /\ UNCHANGED main_res
    /\ UNCHANGED <<inbound, nevents, term, outbound, tcp_rx, updates_rx>>
    /\ UNCHANGED <<fibs_state, s, buf, procLog, coordLog, phaseLog, raw_mode, diag>>
    /\ UNCHANGED <<fibsVars, tuiVars, input_pc, input_res, ln, echoLog, keyLog>>
    /\ UNCHANGED cfgVars

\* stdout.suspend_raw_mode()?;
MainSuspendRaw ==
    /\ Alive /\ main_pc = "suspend"
    /\ IF term = "broken"
       THEN MainFails("IOError") /\ UNCHANGED raw_mode
       ELSE raw_mode' = FALSE /\ main_pc' = AfterSuspend /\ UNCHANGED main_res
    /\ UNCHANGED <<envVars, outbound, tcp_rx, updates_rx>>
    /\ UNCHANGED <<fibs_state, s, buf, procLog, coordLog, phaseLog, diag>>
    /\ UNCHANGED <<fibsVars, tuiVars, input_pc, input_res, ln, echoLog, keyLog>>
    /\ UNCHANGED cfgVars

\* The thread a join position waits for: <<its position, its result, its name>>.
Joined ==
    IF main_pc = "join_fibs" THEN <<fibs_pc, fibs_res, "fibs">>
    ELSE IF main_pc = "join_tui" THEN <<tui_pc, tui_res, "tui">>
    ELSE <<input_pc, input_res, "input">>

AfterJoin ==
    IF main_pc = "join_fibs" THEN "join_tui"
    ELSE IF main_pc = "join_tui" THEN "join_input"
    ELSE "returned"

\* h.join().unwrap_or_else(|_| { write!(stdout, "... thread panicked")?;
\*                               stdout.flush()?; Ok(()) })?;
MainJoin ==
    /\ Alive /\ main_pc \in {"join_fibs", "join_tui", "join_input"}
    /\ Joined[1] = "done"                       \* otherwise join blocks
    /\ IF Joined[2] = "panic"
       THEN IF term = "broken"
            THEN MainFails("IOError") /\ UNCHANGED diag
            ELSE /\ diag' = Append(diag, Joined[3])
                 /\ main_pc' = AfterJoin
                 /\ main_res' = IF AfterJoin = "returned" THEN "Ok" ELSE main_res
       ELSE IF Joined[2] # "Ok"
       THEN MainFails(Joined[2]) /\ UNCHANGED diag
       ELSE /\ main_pc' = AfterJoin
            /\ main_res' = IF AfterJoin = "returned" THEN "Ok" ELSE main_res
            /\ UNCHANGED diag
    /\ UNCHANGED <<envVars, outbound, tcp_rx, updates_rx>>
    /\ UNCHANGED <<fibs_state, s, buf, procLog, coordLog, phaseLog, raw_mode>>
    /\ UNCHANGED <<fibsVars, tuiVars, input_pc, input_res, ln, echoLog, keyLog>>
    /\ UNCHANGED cfgVars

----------------------------------------------------------------------------
(* Display renderer, spawn_tui_thread *)

\* Update::MOTD: fibs_buffer = motd.split("\r\n").fold(...)
OnMOTD(lines, motd) == split(motd)

\* Mutant: the characters are put in front of the last line.
OnAppendChars_Prepend(lines, str) ==
    IF lines # <<>>
    THEN [lines EXCEPT ![Len(lines)] = str \o lines[Len(lines)]]
    ELSE <<str>>

\* Update::AppendChars: push onto the last line, or start the first line
OnAppendChars(lines, str) ==
    IF lines # <<>>
    THEN [lines EXCEPT ![Len(lines)] = lines[Len(lines)] \o str]
    ELSE <<str>>

\* Update::AppendLine: fibs_buffer.push(s)
OnAppendLine(lines, str) == Append(lines, str)

\* visible_window.0 + 1, visible_window.1 + 1 on u8
Scroll(w) == <<(w[1] + 1) % 256, (w[2] + 1) % 256>>

\* The display buffer, the window and the lines handed to redraw_fibs_buffer
\* after update u.
BufferAfter(u) ==
    IF u.tag = "MOTD" THEN OnMOTD(fibs_buffer, u.text)
    ELSE IF u.tag = "AppendChars" THEN OnAppendChars(fibs_buffer, u.text)
    ELSE IF u.tag = "AppendLine" THEN OnAppendLine(fibs_buffer, u.text)
    ELSE fibs_buffer

WindowAfter(u) == IF u.tag = "AppendLine" THEN Scroll(visible_window) ELSE visible_window

DrawnAfter(u) ==
    IF u.tag = "MOTD" THEN BufferAfter(u)
    ELSE IF u.tag = "Input" THEN drawn
    ELSE Window(BufferAfter(u), WindowAfter(u))

\* How a handler ends when the terminal write fails: write!(..)? returns the
\* error, io::stdout().flush().unwrap() panics; which one happens depends on
\* where stdout's buffer is flushed.
TermFailures == {"IOError", "panic"}

\* let next = updates_rx.recv()?; match next { ... }
TuiRecv ==
    /\ Alive /\ tui_pc = "recv"
    /\ updates_rx # <<>> \/ UpdatesTxSenders = 0     \* otherwise recv blocks
    /\ IF updates_rx = <<>>
       THEN \* RecvError
            /\ tui_pc' = "done" /\ tui_res' = "SyncError"
            /\ UNCHANGED <<updates_rx, fibs_buffer, visible_window, input_cursor_pos, drawn,
                           handled>>
       ELSE LET u == Head(updates_rx) IN
            /\ updates_rx' = Tail(updates_rx)
            /\ handled' = Append(handled, u)
            /\ fibs_buffer' = BufferAfter(u)
            /\ visible_window' = WindowAfter(u)
            /\ IF term = "broken"
               THEN /\ \E r \in TermFailures : tui_res' = r
                    /\ tui_pc' = "done"
                    /\ UNCHANGED <<input_cursor_pos, drawn>>
               ELSE /\ drawn' = DrawnAfter(u)
                    /\ input_cursor_pos' =
                         IF u.tag = "Input"
                         THEN <<(input_cursor_pos[1] + Len(as_bytes(u.text))) % 65536,
                                input_cursor_pos[2]>>
                         ELSE input_cursor_pos
                    /\ UNCHANGED <<tui_pc, tui_res>>
    /\ UNCHANGED <<envVars, outbound, tcp_rx>>
    /\ UNCHANGED <<fibsVars, mainVars, input_pc, input_res, ln, echoLog, keyLog>>
    /\ UNCHANGED cfgVars

----------------------------------------------------------------------------
(* Input relay, spawn_input_thread *)

\* Mutant: the line is written without the carriage return.
Payload_NoCR(line) == as_bytes(line)

\* ln.push('\r'); let payload = ln.as_bytes();
Payload(line) == as_bytes(Append(line, CR))

\* One key event from stdin.keys()
InputKey ==
    /\ Alive /\ input_pc = "keys" /\ nevents < MaxEvents
    /\ Quiet
    /\ nevents' = nevents + 1
    /\ \E k \in Keys :
         /\ keyLog' = Append(keyLog, k)
         /\ IF k = Key_F1
            THEN \* Ok(_) => {}
                 UNCHANGED <<input_pc, input_res, ln, outbound, echoLog, updates_rx>>
            ELSE IF k = Key_nl
            THEN IF sock \in {"reset", "shutdown"}
                 THEN \* tcp.write(&payload)? fails
                      /\ input_pc' = "done" /\ input_res' = "IOError"
                      /\ ln' = Append(ln, CR)
                      /\ UNCHANGED <<outbound, echoLog, updates_rx>>
                 ELSE /\ outbound' = outbound \o Payload(ln)
                      /\ ln' = <<>>
                      /\ UNCHANGED <<input_pc, input_res, echoLog, updates_rx>>
            ELSE IF UpdatesRxAlive
                 THEN /\ updates_rx' = updates_rx \o <<AppendChars(<<k>>), Input(<<k>>)>>
                      /\ ln' = Append(ln, k)
                      /\ echoLog' = Append(echoLog, k)
                      /\ UNCHANGED <<input_pc, input_res, outbound>>
                 ELSE \* updates_tx.send(chars_update)? fails
                      /\ input_pc' = "done" /\ input_res' = "SyncError"
                      /\ UNCHANGED <<ln, outbound, echoLog, updates_rx>>
    /\ UNCHANGED <<inbound, sock, term, tcp_rx>>
    /\ UNCHANGED <<fibsVars, mainVars, tuiVars>>
    /\ UNCHANGED cfgVars

\* stdin.keys() ends (Ok(())) or yields Err(e)
StdinEnd ==
    /\ Alive /\ input_pc = "keys" /\ nevents < MaxEvents
    /\ Quiet
    /\ nevents' = nevents + 1
    /\ input_pc' = "done"
    /\ \E r \in {"Ok", "IOError"} : input_res' = r
    /\ UNCHANGED <<inbound, sock, term, tcp_rx, updates_rx>>
    /\ UNCHANGED <<fibsVars, mainVars, tuiVars, ln, outbound, echoLog, keyLog>>
    /\ UNCHANGED cfgVars

----------------------------------------------------------------------------

Next ==
    \/ ServerSend \/ ServerClose \/ ServerReset \/ TermFail
    \/ FibsRead \/ FibsSend
    \/ MainLoop \/ MainShutdown \/ MainSuspendRaw \/ MainJoin
    \/ TuiRecv
    \/ InputKey \/ StdinEnd

Spec == Init /\ [][Next]_vars

\* Every thread that can run does run: the operating system schedules the four
\* threads fairly.  Nothing is assumed of the server, the keyboard or the
\* terminal.
Fairness ==
    /\ WF_vars(FibsRead) /\ WF_vars(FibsSend)
    /\ WF_vars(MainLoop) /\ WF_vars(MainShutdown) /\ WF_vars(MainSuspendRaw)
    /\ WF_vars(MainJoin)
    /\ WF_vars(TuiRecv)

FairSpec == Spec /\ Fairness

\* main reads its configuration in an environment that is any of Environs,
\* before it connects and spawns the threads.
ConfigInit ==
    /\ Spawned
    /\ main_pc = "config"
    /\ environ \in Environs
    /\ fibs_hostname = <<>> /\ fibs_port = 0

\* let fibs_hostname = ...; let fibs_port = ...;
MainConfig ==
    /\ main_pc = "config"
    /\ fibs_hostname' = Hostname(environ)
    /\ fibs_port' = Port(environ)
    /\ main_pc' = "loop"
    /\ UNCHANGED <<environ, main_res, fibs_state, s, buf, procLog, coordLog, phaseLog,
                   raw_mode, diag>>
    /\ UNCHANGED <<envVars, outbound, tcp_rx, updates_rx>>
    /\ UNCHANGED <<fibsVars, tuiVars, input_pc, input_res, ln, echoLog, keyLog>>

ConfigSpec == ConfigInit /\ [][MainConfig]_vars

----------------------------------------------------------------------------
(* Vocabulary of the properties *)

IsPrefix(p, q) == Len(p) <= Len(q) /\ SubSeq(q, 1, Len(p)) = p
EndsWith(q, suf) == Len(suf) <= Len(q) /\ SubSeq(q, Len(q) - Len(suf) + 1, Len(q)) = suf
Contains(q, sub) == \E i \in 1..Len(q) : IsPrefix(sub, SubSeq(q, i, Len(q)))

Last(q) == q[Len(q)]

\* The first n bytes the coordinator received
Received(n) == SubSeq(procLog, 1, n)

\* Number of consecutive bytes equal to c that end at position j of q
RECURSIVE RunLen(_, _, _)
RunLen(q, j, c) == IF j >= 1 /\ q[j] = c THEN 1 + RunLen(q, j - 1, c) ELSE 0

\* Position of the LF that ends the leading skip: the first LF that directly
\* follows a CR standing at an odd place in its run of CRs (a CR read while
\* another CR is pending cancels it).  0 when there is none.
EndsSkip(q, k) == q[k] = LF /\ RunLen(q, k - 1, CR) % 2 = 1
SkipEnd(q) ==
    LET K == { k \in 1..Len(q) : EndsSkip(q, k) } IN
    IF K = {} THEN 0 ELSE CHOOSE k \in K : \A j \in K : k <= j

\* The coordinator's banner updates
MotdSent == { i \in DOMAIN coordLog : coordLog[i].u.tag = "MOTD" }
PasswordSent == { i \in DOMAIN coordLog : coordLog[i].u.tag = "AppendLine" }

\* Every update sent so far has been handled by a renderer that is still running
AllConsumed == updates_rx = <<>> /\ tui_pc = "recv"

ExampleText  == Str_welcome \o CRLF \o CRLF \o Str_login
ExampleLines == << Str_welcome, <<>>, Str_login >>

----------------------------------------------------------------------------
(* C1 *)

----------------------------------------------------------------------------
(* C2 *)

Entered(p) == { i \in DOMAIN phaseLog : phaseLog[i].phase = p }

\* The bytes of "login: "
MarkerBytes == { Str_login[i] : i \in DOMAIN Str_login }

\* The received bytes end in "login: " and belong to the banner: the phase was
\* not left before the last of them.
BannerEndsInLogin ==
    /\ EndsWith(procLog, Str_login)
    /\ \A i \in Entered("WaitLogin") : phaseLog[i].at >= Len(procLog)

\* C2 as stated: whenever the banner bytes end in "login: ", exactly one banner
\* update has been sent and AwaitingLogin entered exactly once, at that byte.
C2_Original ==
    BannerEndsInLogin =>
        /\ Cardinality(MotdSent) = 1
        /\ Cardinality(Entered("WaitLogin")) = 1
        /\ \A i \in Entered("WaitLogin") : phaseLog[i].at = Len(procLog)

\* LF "login: " ends at byte n and the scanner is bound to see it: it comes
\* directly after the leading skip, or directly after a byte that no state of
\* the scanner expects.
SureLoginAt(n) ==
    /\ n >= Len(LoginLine) + 2
    /\ procLog[n] = Last(LoginLine)
    /\ SubSeq(procLog, n - Len(LoginLine) + 1, n) = LoginLine
    /\ LET m == n - Len(LoginLine)
           k == SkipEnd(Received(m)) IN
       \/ k = m
       \/ k > 0 /\ k < m /\ procLog[m] \notin (MarkerBytes \cup {LF})

\* C2, amended: at most one banner update is sent and AwaitingLogin is entered
\* at most once in a run, both at the same byte; that byte completes the
\* sequence LF "login: " received after the leading CR LF skip (a banner that
\* ends in "login: " without them causes neither); the transition does happen
\* when LF "login: " comes directly after the skip or after a byte that is
\* neither LF nor a byte of the marker; and no later byte causes a second
\* banner update or a second entry into AwaitingLogin.
C2_LoginPromptOnce ==
    /\ Cardinality(MotdSent) <= 1
    /\ Cardinality(Entered("WaitLogin")) <= 1
    /\ (fibs_state = "MOTD") = (Entered("WaitLogin") = {})
    /\ \A i \in Entered("WaitLogin") :
         LET n == phaseLog[i].at
             k == SkipEnd(Received(n)) IN
         /\ n <= Len(procLog)
         /\ EndsWith(Received(n), LoginLine)
         /\ k > 0 /\ k <= n - Len(LoginLine)
         /\ \/ \E j \in MotdSent : coordLog[j].at = n
            \/ main_res = "SyncError" /\ coordLog = <<>>
    /\ \A j \in MotdSent : \E i \in Entered("WaitLogin") : phaseLog[i].at = coordLog[j].at
    /\ \A n \in 1..Len(procLog) :
         SureLoginAt(n) => \E i \in Entered("WaitLogin") : phaseLog[i].at <= n

\* After the login prompt was reported, a second LF "login: " has arrived and
\* taken the scanner to state 10 again.
C2_Witness ==
    /\ Cardinality(MotdSent) = 1
    /\ \E i \in Entered("WaitLogin") : phaseLog[i].at < Len(procLog)
    /\ fibs_state = "WaitLogin" /\ s = 10
    /\ EndsWith(procLog, LoginLine)

----------------------------------------------------------------------------
(* C3 *)

\* "password: " ends at byte n and all of it was received after AwaitingLogin
\* was entered.
PasswordInWaitLoginAt(n) ==
    /\ n >= Len(Str_password)
    /\ SubSeq(procLog, n - Len(Str_password) + 1, n) = Str_password
    /\ \E i \in Entered("WaitLogin") : phaseLog[i].at <= n - Len(Str_password)

\* C3: whenever "password: " is received in AwaitingLogin, AwaitingPassword is
\* entered no later than at the byte that completes it, whatever was received
\* in AwaitingLogin before.
C3_Claim ==
    \A n \in 1..Len(procLog) :
        PasswordInWaitLoginAt(n) => \E j \in Entered("WaitPassword") : phaseLog[j].at <= n

----------------------------------------------------------------------------
(* C4 *)

\* C4: AwaitingPassword is entered at most once and AppendLine("password: ") is
\* sent at most once, both at a byte that completes "password: " received after
\* AwaitingLogin was entered and after the banner update; while the phase is
\* CollectingBanner nothing is sent and the phase does not become
\* AwaitingPassword, whatever the banner contains.
C4_PasswordPromptOnce ==
    /\ Cardinality(PasswordSent) <= 1
    /\ Cardinality(Entered("WaitPassword")) <= 1
    /\ (fibs_state = "WaitPassword") = (Entered("WaitPassword") # {})
    /\ fibs_state = "MOTD" => coordLog = <<>> /\ s < 10 /\ Len(phaseLog) = 1
    /\ \A j \in Entered("WaitPassword") :
         /\ EndsWith(Received(phaseLog[j].at), Str_password)
         /\ \E i \in Entered("WaitLogin") :
              i < j /\ phaseLog[i].at + Len(Str_password) <= phaseLog[j].at
    /\ \A j \in PasswordSent :
         /\ coordLog[j].u = AppendLine(Str_password)
         /\ \E i \in Entered("WaitPassword") : phaseLog[i].at = coordLog[j].at
         /\ \E i \in MotdSent : i < j

\* The banner contained "password: "; the login prompt has been reported since,
\* and no AppendLine was sent.
C4_Witness ==
    /\ fibs_state = "WaitLogin"
    /\ \E i \in Entered("WaitLogin") : Contains(Received(phaseLog[i].at), Str_password)
    /\ Cardinality(MotdSent) = 1 /\ PasswordSent = {}

----------------------------------------------------------------------------
(* C5 *)

\* C5: when the connection fails while the banner is being collected, main
\* eventually leaves the session loop and returns an error.
C5_Claim ==
    (sock = "reset" /\ fibs_state = "MOTD" /\ main_pc = "loop")
        ~> (main_pc = "returned" /\ main_res \notin {"none", "Ok"})

----------------------------------------------------------------------------
(* C6 *)

\* C6: the reader has terminated once a read has returned 0 bytes.
C6_Claim == zero_reads > 0 => fibs_pc = "done"

----------------------------------------------------------------------------
(* C7 *)

\* C7: once the session loop has exited and the socket has been shut down,
\* shutdown completes: the joins return and main returns.
C7_Claim == (main_pc = "suspend") ~> (main_pc = "returned")

----------------------------------------------------------------------------
(* C8 *)

\* C8: once the phase is AwaitingPassword the session loop eventually exits.
C8_Claim == (fibs_state = "WaitPassword") ~> (main_pc # "loop")

----------------------------------------------------------------------------
(* C9 *)

\* The scanner state after the bytes of q, from state 0
RECURSIVE ScanFrom(_, _, _)
ScanFrom(q, i, st) == IF i > Len(q) THEN st ELSE ScanFrom(q, i + 1, Step(st, q[i]))
Scan(q) == ScanFrom(q, 1, 0)

\* The received bytes the session loop fed to the scanner: all of them but the
\* one received in AwaitingPassword, on which the loop breaks.
Fed ==
    IF \E j \in Entered("WaitPassword") : phaseLog[j].at < Len(procLog)
    THEN Received(Len(procLog) - 1)
    ELSE procLog

----------------------------------------------------------------------------
(* C10 *)

\* Occurrences of character c in the display buffer and in the echo history
InBuffer(c) ==
    Cardinality(UNION { { <<i, j>> : j \in { x \in DOMAIN fibs_buffer[i] : fibs_buffer[i][x] = c } }
                        : i \in DOMAIN fibs_buffer })
Echoed(c) == Cardinality({ j \in DOMAIN echoLog : echoLog[j] = c })

\* C10: once every update has been consumed, each echoed character is in the
\* display buffer exactly as often as it was echoed.
C10_Claim == AllConsumed => InBuffer(Key_k) = Echoed(Key_k)

----------------------------------------------------------------------------
(* C11 *)

\* Updates i < j the renderer handled are two AppendChars in a row as far as the
\* display buffer goes: only Input updates lie between them.
NextAppendChars(i, j) ==
    /\ handled[i].tag = "AppendChars" /\ handled[j].tag = "AppendChars"
    /\ \A m \in (i + 1)..(j - 1) : handled[m].tag = "Input"

\* C11: character appends are ordered within a line.  When the last two updates
\* that touch the display buffer are AppendChars(a) then AppendChars(b), the
\* last line ends in a followed by b; and the step that handles an AppendChars
\* on a non-empty buffer appends its text to the last line and leaves the
\* number of lines and every other line as they were.
C11_AppendCharsInOrder ==
    /\ [](\A i, j \in DOMAIN handled :
            (/\ i < j /\ NextAppendChars(i, j)
             /\ \A m \in (j + 1)..Len(handled) : handled[m].tag = "Input")
            => /\ fibs_buffer # <<>>
               /\ EndsWith(Last(fibs_buffer), handled[i].text \o handled[j].text))
    /\ [][(/\ handled' # handled
           /\ Last(handled').tag = "AppendChars"
           /\ fibs_buffer # <<>>)
          => /\ Len(fibs_buffer') = Len(fibs_buffer)
             /\ \A n \in 1..(Len(fibs_buffer) - 1) : fibs_buffer'[n] = fibs_buffer[n]
             /\ Last(fibs_buffer') = Last(fibs_buffer) \o Last(handled').text]_vars

\* After the example banner the user typed 'k' then U+00E9: the prompt line
\* ends in both, in that order, and the banner still has its three lines.
C11_Witness ==
    /\ Len(handled) >= 4
    /\ NextAppendChars(Len(handled) - 3, Len(handled) - 1)
    /\ handled[Len(handled) - 3].text = <<Key_k>>
    /\ handled[Len(handled) - 1].text = <<Key_e>>
    /\ fibs_buffer = << Str_welcome, <<>>, Str_login \o <<Key_k, Key_e>> >>

----------------------------------------------------------------------------
(* C12 *)

\* What the claim expects of the relay after the key events keys: the line
\* accumulated since the last newline, the bytes written to the socket and
\* the characters echoed.
RECURSIVE Relayed(_, _, _, _)
Relayed(keys, line, out, echo) ==
    IF keys = <<>> THEN [line |-> line, out |-> out, echo |-> echo]
    ELSE LET k == Head(keys) IN
         IF k = Key_nl THEN Relayed(Tail(keys), <<>>, out \o as_bytes(line) \o <<CR>>, echo)
         ELSE IF k = Key_F1 THEN Relayed(Tail(keys), line, out, echo)
         ELSE Relayed(Tail(keys), Append(line, k), out, Append(echo, k))
Expected(keys) == Relayed(keys, <<>>, <<>>, <<>>)

\* The texts of the AppendChars and of the Input updates sent so far, in order
EchoUpdates(tag) ==
    LET all == handled \o updates_rx IN
    [ n \in 1..Cardinality({ i \in DOMAIN all : all[i].tag = tag }) |->
        LET i == CHOOSE i \in DOMAIN all :
                   /\ all[i].tag = tag
                   /\ Cardinality({ m \in 1..i : all[m].tag = tag }) = n
        IN all[i].text ]

----------------------------------------------------------------------------
(* C13 *)

\* The value of the variable called name, NoVar when it is not set
Lookup(env, name) ==
    LET I == { i \in DOMAIN env : env[i][1] = name } IN
    IF I = {} THEN NoVar ELSE env[CHOOSE i \in I : TRUE][2]

\* C13: once main has read its configuration, the host is the value of the
\* variable FIBS_HOSTNAME when it is set and "fibs.com" when it is not; the port
\* is the value of FIBS_PORT, parsed as an unsigned 16-bit integer, when it is
\* set and 4321 when it is not.
C13_Claim ==
    main_pc # "config" =>
        LET h == Lookup(environ, Str_FIBS_HOSTNAME)
            p == Lookup(environ, Str_FIBS_PORT) IN
        /\ fibs_hostname = (IF h = NoVar THEN DEFAULT_FIBS_SERVER ELSE h)
        /\ p = NoVar => fibs_port = DEFAULT_FIBS_PORT
        /\ p # NoVar /\ ParseU16(p) # None => fibs_port = ParseU16(p)

----------------------------------------------------------------------------
(* C14 *)

PhaseOrder == << "MOTD", "WaitLogin", "WaitPassword" >>

\* C14: the values state.fibs_state takes in a run are, in order, a prefix of
\* CollectingBanner, AwaitingLogin, AwaitingPassword: the phase moves one step
\* at a time, skips none and never returns to an earlier one; each change
\* happens at a later byte than the one before.
C14_PhasesMonotonic ==
    /\ Len(phaseLog) \in 1..Len(PhaseOrder)
    /\ \A i \in DOMAIN phaseLog : phaseLog[i].phase = PhaseOrder[i]
    /\ \A i \in 1..(Len(phaseLog) - 1) : phaseLog[i].at < phaseLog[i + 1].at
    /\ fibs_state = Last(phaseLog).phase

\* A run has gone through the three phases.
C14_Witness ==
    /\ Len(phaseLog) = 3 /\ fibs_state = "WaitPassword"
    /\ Len(procLog) > phaseLog[3].at

----------------------------------------------------------------------------
(* C15 *)

\* C15: whenever the session loop ends, for whatever reason, the coordinator
\* goes on to the socket shutdown (and from there to the joins): it does not
\* return from inside the loop.
C15_Claim ==
    [][main_pc = "loop" /\ main_pc' # "loop" => main_pc' = "shutdown"]_vars

----------------------------------------------------------------------------
(* C16 *)

\* The places of main after the session loop, in the order the claim gives
ShutdownPath == << "shutdown", "suspend", "join_fibs", "join_tui", "join_input" >>
PathIndex(pc) == CHOOSE i \in DOMAIN ShutdownPath : ShutdownPath[i] = pc
OnPath(pc) == \E i \in DOMAIN ShutdownPath : ShutdownPath[i] = pc

JoinsBeyondReaderUnreached ==
    /\ main_pc \notin {"join_tui", "join_input"}
    /\ diag = <<>>
    /\ fibs_res \in {"none", "IOError"}

----------------------------------------------------------------------------
(* C17 *)

\* The byte each scanner state 0..19 waits for: CR LF, then LF "login: ", then
\* "password: "
Awaited == <<CR, LF, LF>> \o Str_login \o Str_password

\* The step the claim describes
Policy(st, b) ==
    IF st \in 0..(Len(Awaited) - 1)
    THEN IF b = Awaited[st + 1] THEN st + 1
         ELSE IF st <= 1 THEN 0 ELSE 2
    ELSE 0

LFLFLogin == CRLF \o <<LF, LF>> \o Str_login

\* C17: every byte the session loop feeds to the scanner takes it to the table
\* entry of (s, b) when there is one, else to the default of s (0 for states 0
\* and 1, 2 for states 2 to 19), and to 0 from a state without a row; the
\* restart is from that default and not from an overlap state, so after the
\* skip LF LF "login: " is not recognised.
C17_StepPolicy ==
    /\ [](IsPrefix(LFLFLogin, procLog) => Len(phaseLog) = 1 \/ phaseLog[2].at > Len(LFLFLogin))
    /\ [](procLog = LFLFLogin => s = 2 /\ fibs_state = "MOTD")
    /\ [][(procLog' # procLog /\ fibs_state # "WaitPassword")
          => s' = Policy(s, Last(procLog'))]_vars

\* CR LF LF LF "login: " has been received and the phase has not changed.
C17_Witness ==
    /\ procLog = LFLFLogin
    /\ fibs_state = "MOTD" /\ coordLog = <<>>

----------------------------------------------------------------------------
(* C18 *)

\* C18: while main runs, the banner buffer is empty whenever the phase is not
\* CollectingBanner: the step that leaves CollectingBanner clears it and no
\* byte received later is appended to it.
C18_BufferReleased ==
    Alive /\ fibs_state # "MOTD" => buf = <<>>

\* Bytes have been received in AwaitingLogin after a banner that was not
\* empty, and the buffer is empty.
C18_Witness ==
    /\ Alive /\ fibs_state = "WaitLogin" /\ buf = <<>>
    /\ coordLog # <<>> /\ coordLog[1].u.text # <<>>
    /\ Len(procLog) > phaseLog[2].at

----------------------------------------------------------------------------
(* C19 *)

\* Position of the LF of the first CR LF pair of q, 0 when there is none
FirstCRLF(q) ==
    LET K == { k \in 2..Len(q) : q[k - 1] = CR /\ q[k] = LF } IN
    IF K = {} THEN 0 ELSE CHOOSE k \in K : \A j \in K : k <= j

\* What the banner buffer holds while the banner is collected, when the skip
\* ends at position k of the received bytes (0: it has not ended)
BufferAfterSkip(k) ==
    /\ k = 0 => buf = <<>> /\ s \in {0, 1}
    /\ k > 0 => buf = SubSeq(procLog, k + 1, Len(procLog)) /\ s >= 2

----------------------------------------------------------------------------
(* C20 *)

AppendLinesHandled == Cardinality({ i \in DOMAIN handled : handled[i].tag = "AppendLine" })

\* C20: when the update the renderer handled last is an AppendLine, the line it
\* appended lies inside the visible window (start <= index of the last line <
\* start + length, lines counted from 0); and the window is its initial value
\* (0, 22) moved and widened by one for each AppendLine handled, whatever
\* other updates were handled.
C20_Claim ==
    /\ handled # <<>> /\ Last(handled).tag = "AppendLine" =>
         /\ visible_window[1] <= Len(fibs_buffer) - 1
         /\ Len(fibs_buffer) - 1 < visible_window[1] + visible_window[2]
    /\ visible_window = <<AppendLinesHandled, 22 + AppendLinesHandled>>

====
